---------------------------- MODULE Spec2Model ----------------------------
(***************************************************************************)
(* A model of release/src/main.rs of PyOxidizer: the line-streaming        *)
(* command wrapper run_cmd, the generation of the new-project Cargo.lock   *)
(* (generate_new_project_cargo_lock), the two sub-commands and main.       *)
(*                                                                         *)
(* Strings whose contents the code inspects (output lines, tolerated       *)
(* substrings, version strings) are sequences of one-character strings.    *)
(* Three specifications share the variables:                               *)
(*   SpecRunCmd  one call of run_cmd with arbitrary arguments and child;   *)
(*   SpecGen     one call of generate_new_project_cargo_lock with          *)
(*               arbitrary arguments;                                      *)
(*   Spec        one run of the tool, from main to std::process::exit.     *)
(***************************************************************************)
EXTENDS Integers, Sequences, FiniteSets

VARIABLES
    \* ---- run_cmd ----
    rc_pc,                \* position in run_cmd
    package,              \* the label argument
    ignore_errors,        \* Vec<String> argument
    produced,             \* what reader.lines() has yielded so far
    sink,                 \* what println! has written, one entry per call
    found_ignore_string,  \* the local flag
    status,               \* what try_wait gave
    rc_result,            \* the Result<i32> returned
    \* ---- generate_new_project_cargo_lock ----
    g_pc,                 \* position in the function
    caller,               \* who called it (where it returns to)
    repo_root,            \* the repo_root argument
    pyembed_force_path,   \* the force argument
    pyembed_version,      \* local
    pyembed_entry,        \* local
    temp_exists,          \* the temporary directory exists on disk
    cargo_toml_file,      \* content of <temp>/placeholder_project/Cargo.toml
    manifest_data,        \* local
    loaded,               \* what Lockfile::load returned (history)
    packages,             \* lock_file.packages
    g_result,             \* the Result<String> returned
    trace,                \* the steps performed so far, in order
    cmdlog,               \* the toolchain invocations made so far
    \* ---- main ----
    m_pc,                 \* position in main / main_impl / the sub-command
    cwd_ok, git, sl,      \* the environment root resolution probes
    probes,               \* the discovery strategies tried so far, in order
    argv,                 \* the command line
    subcommand,           \* matches.subcommand()
    stdout_buf,           \* what the tool wrote to standard output
    stderr_buf,           \* what the tool wrote to standard error
    lock_written,         \* pyoxidizer/src/new-project-cargo.lock was written
    m_result,             \* what main_impl returned
    exit_code             \* the process exit code

rc_vars == <<rc_pc, package, ignore_errors, produced, sink,
             found_ignore_string, status, rc_result>>
g_vars == <<g_pc, caller, repo_root, pyembed_force_path, pyembed_version,
            pyembed_entry, temp_exists, cargo_toml_file, manifest_data,
            loaded, packages, g_result, trace, cmdlog>>
m_vars == <<m_pc, cwd_ok, git, sl, probes, argv, subcommand, stdout_buf, stderr_buf,
            lock_written, m_result, exit_code>>
vars == <<rc_vars, g_vars, m_vars>>

---------------------------------------------------------------------------
(* Bounds *)

\* longest output line of the child, in characters
MaxLineLen == 2
\* most lines the child produces in one call
MaxLines == 2
\* most entries of ignore_errors
MaxIgnore == 1
\* largest exit code of a child
MaxExit == 2
\* most package records in a loaded Cargo.lock
MaxPkgs == 3

---------------------------------------------------------------------------
(* Strings *)

Alphabet == {"a", "b"}

SeqsUpTo(S, n) == UNION {[1..k -> S] : k \in 0..n}

\* str::contains(pat): pat occurs in line at some offset
Contains(line, pat) ==
    \E i \in 0..(Len(line) - Len(pat)) :
        SubSeq(line, i + 1, i + Len(pat)) = pat

\* the suffix occurs anywhere in s
EndsWithAnywhere(s, suffix) == Contains(s, suffix)

\* str::ends_with(suffix)
EndsWith(s, suffix) ==
    /\ Len(s) >= Len(suffix)
    /\ SubSeq(s, Len(s) - Len(suffix) + 1, Len(s)) = suffix

---------------------------------------------------------------------------
(* run_cmd, lines 30-77 *)

Lines == SeqsUpTo(Alphabet, MaxLineLen)

\* one item of reader.lines(): io::Result<String>
LineItem(l) == [err |-> FALSE, text |-> l]
ReadError == [err |-> TRUE, text |-> <<>>]
Items == {LineItem(l) : l \in Lines} \cup {ReadError}

Patterns == {<<>>, <<"a">>, <<"a", "b">>}
Labels == {<<"p">>, <<"p", "y">>}

\* a child's exit status: code() is None when it was ended by a signal
ExitStatuses == {[has_code |-> TRUE, code |-> c] : c \in 0..MaxExit}
                    \cup {[has_code |-> FALSE, code |-> 0]}

\* ExitStatus::success()
Success(st) == st.has_code /\ st.code = 0

\* status.code().unwrap_or(1)
CodeOr1(st) == IF st.has_code THEN st.code ELSE 1

NoStatus == [state |-> "unknown", has_code |-> FALSE, code |-> 0]
Exited(st) == [state |-> "exited", has_code |-> st.has_code, code |-> st.code]

Pending == [kind |-> "pending", code |-> 0]
RcOk(c) == [kind |-> "ok", code |-> c]
RcErr(k, c) == [kind |-> k, code |-> c]

\* the flag keeps only the last line's match
FoundAfterLastOnly(found, line, ignore) ==
    \E k \in 1..Len(ignore) : Contains(line, ignore[k])

\* lines 54-58: the flag after one more line
FoundAfter(found, line, ignore) ==
    found \/ \E k \in 1..Len(ignore) : Contains(line, ignore[k])

\* line 59: println!("{}: {}", package, line)
Echo(label, line) == label \o <<":", " ">> \o line

\* a tolerated line is not echoed
SinkAfterQuiet(out, label, line, ignore) ==
    IF \E k \in 1..Len(ignore) : Contains(line, ignore[k])
    THEN out
    ELSE Append(out, label \o <<":", " ">> \o line)

\* lines 54-59: the echo does not depend on the match
SinkAfter(out, label, line, ignore) == Append(out, Echo(label, line))

\* lines 69-76: the verdict
Verdict(st, found) ==
    IF Success(st) \/ found
    THEN RcOk(CodeOr1(st))
    ELSE RcErr("command exited", CodeOr1(st))

RcInit ==
    /\ rc_pc = "launch"
    /\ package \in Labels
    /\ ignore_errors \in SeqsUpTo(Patterns, MaxIgnore)
    /\ produced = <<>>
    /\ sink = <<>>
    /\ found_ignore_string = FALSE
    /\ status = NoStatus
    /\ rc_result = Pending

RcIdle ==
    /\ rc_pc = "unused"
    /\ package = <<>>
    /\ ignore_errors = <<>>
    /\ produced = <<>>
    /\ sink = <<>>
    /\ found_ignore_string = FALSE
    /\ status = NoStatus
    /\ rc_result = Pending

\* lines 41-48: spawn the child; `?` returns the launch error
RunCmdLaunch ==
    /\ rc_pc = "launch"
    /\ \E ok \in BOOLEAN :
          IF ok
          THEN rc_pc' = "loop" /\ rc_result' = rc_result
          ELSE rc_pc' = "done" /\ rc_result' = RcErr("launching command", 0)
    /\ UNCHANGED <<package, ignore_errors, produced, sink,
                   found_ignore_string, status>>
    /\ UNCHANGED <<g_vars, m_vars>>

\* lines 51-60: one iteration of the loop over reader.lines()
RunCmdLine ==
    /\ rc_pc = "loop"
    /\ Len(produced) < MaxLines
    /\ \E item \in Items :
          /\ produced' = Append(produced, item)
          /\ IF item.err
             THEN \* line 52: `line?`
                  /\ rc_pc' = "done"
                  /\ rc_result' = RcErr("io error", 0)
                  /\ UNCHANGED <<found_ignore_string, sink>>
             ELSE /\ found_ignore_string' =
                        FoundAfter(found_ignore_string, item.text, ignore_errors)
                  /\ sink' = SinkAfter(sink, package, item.text, ignore_errors)
                  /\ UNCHANGED <<rc_pc, rc_result>>
    /\ UNCHANGED <<package, ignore_errors, status>>
    /\ UNCHANGED <<g_vars, m_vars>>

\* line 51: the stream is exhausted
RunCmdEof ==
    /\ rc_pc = "loop"
    /\ rc_pc' = "wait"
    /\ UNCHANGED <<package, ignore_errors, produced, sink,
                   found_ignore_string, status, rc_result>>
    /\ UNCHANGED <<g_vars, m_vars>>

\* lines 62-76: try_wait, then the verdict
RunCmdWait ==
    /\ rc_pc = "wait"
    /\ rc_pc' = "done"
    /\ \/ \* line 64: try_wait failed
          /\ status' = [NoStatus EXCEPT !.state = "wait failed"]
          /\ rc_result' = RcErr("waiting on process", 0)
       \/ \* line 65: try_wait gave None
          /\ status' = [NoStatus EXCEPT !.state = "not exited"]
          /\ rc_result' = RcErr("unable to wait on command", 0)
       \/ \E st \in ExitStatuses :
          /\ status' = Exited(st)
          /\ rc_result' = Verdict(st, found_ignore_string)
    /\ UNCHANGED <<package, ignore_errors, produced, sink, found_ignore_string>>
    /\ UNCHANGED <<g_vars, m_vars>>

NextRunCmd == RunCmdLaunch \/ RunCmdLine \/ RunCmdEof \/ RunCmdWait

---------------------------------------------------------------------------
(* generate_new_project_cargo_lock, lines 79-158 *)

\* line 87
PACKAGE_NAME == "placeholder_project"

Roots == {"git_root", "sl_root"}

PreMarker == <<"-", "p", "r", "e">>

\* version strings a pyembed/Cargo.toml may declare
Versions == { <<"1">>,
              <<"1">> \o PreMarker,
              PreMarker,
              <<"1">> \o PreMarker \o <<"1">>,
              <<"p", "r", "e">>,
              PreMarker \o <<"-">> }

PkgNames == {PACKAGE_NAME, "placeholder_project2", "pyembed"}
PkgVersions == {"0.1.0", "1.0.0"}
PkgRecords == [name : PkgNames, version : PkgVersions]
PkgLists == SeqsUpTo(PkgRecords, MaxPkgs)

KV(k, v) == [key |-> k, val |-> v]

\* lines 96-112: the [dependencies.pyembed] fragment
PyembedEntry(version, force, root) ==
    LET base == << KV("[dependencies.pyembed]", <<>>),
                   KV("version", version),
                   KV("default-features", <<"false">>) >>
    IN  IF EndsWith(version, PreMarker) \/ force
        THEN Append(base, KV("path", <<root, "pyembed">>))
        ELSE base

\* what `cargo init --bin` leaves in Cargo.toml
Skeleton == << KV("[package]", <<>>), KV("name", <<PACKAGE_NAME>>) >>

\* pyoxidizer/src/templates/cargo-extra.toml.hbs
ExtraToml == << KV("cargo-extra.toml.hbs", <<>>) >>

\* an unchecked run: the exit status is not looked at
DuctRunUnchecked(st) == TRUE

\* duct: Expression::run() is checked, a non-zero status is an error
DuctRunOk(st) == Success(st)

\* only a leading placeholder record is removed
SanitizeHeadOnly(pkgs) ==
    IF pkgs # <<>> /\ pkgs[1].name = "placeholder_project"
    THEN Tail(pkgs)
    ELSE pkgs

\* lines 151-155: drain(..).filter(name != PACKAGE_NAME).collect()
Sanitize(pkgs) == SelectSeq(pkgs, LAMBDA p : p.name # PACKAGE_NAME)

\* line 157: lock_file.to_string()
LockText(pkgs) ==
    <<[section |-> "header", name |-> "", version |-> ""]>> \o
    [i \in 1..Len(pkgs) |->
        [section |-> "[[package]]", name |-> pkgs[i].name,
         version |-> pkgs[i].version]]

\* the skeleton is generated before the version is resolved
ThenSkeletonFirst(pc) ==
    CASE pc = "tempdir" -> "cargo_init"
      [] pc = "cargo_init" -> "version"
      [] pc = "version" -> "read_manifest"
      [] pc = "read_manifest" -> "read_extra"
      [] pc = "read_extra" -> "write_manifest"
      [] pc = "write_manifest" -> "generate_lockfile"
      [] pc = "generate_lockfile" -> "load_lock"
      [] pc = "load_lock" -> "sanitize"
      [] OTHER -> "returned"

\* lines 89-157: the statement that follows each statement
Then(pc) ==
    CASE pc = "tempdir" -> "version"
      [] pc = "version" -> "cargo_init"
      [] pc = "cargo_init" -> "read_manifest"
      [] pc = "read_manifest" -> "read_extra"
      [] pc = "read_extra" -> "write_manifest"
      [] pc = "write_manifest" -> "generate_lockfile"
      [] pc = "generate_lockfile" -> "load_lock"
      [] pc = "load_lock" -> "sanitize"
      [] OTHER -> "returned"

GPending == [kind |-> "pending", text |-> <<>>]
GOk(text) == [kind |-> "ok", text |-> text]
GErr(k) == [kind |-> k, text |-> <<>>]

Step(name, ok) == [step |-> name, ok |-> ok]

Invocation(args, st, spawned) ==
    [program |-> "cargo", args |-> args, via |-> "duct::cmd.run",
     stdout_to |-> "stderr", spawned |-> spawned,
     has_code |-> st.has_code, code |-> st.code]

NoExit == [has_code |-> FALSE, code |-> 0]

\* the directory is removed by a call that an early return skips
TempAfterReturnManual(exists, res) == IF res.kind = "ok" THEN FALSE ELSE exists

\* temp_dir: TempDir is dropped when the function returns, on every path
TempAfterReturn(exists, res) == FALSE

\* a return from the function: `?` or the final Ok
GenReturn(res) ==
    /\ g_pc' = "returned"
    /\ g_result' = res
    /\ temp_exists' = TempAfterReturn(temp_exists, res)
    /\ cargo_toml_file' = <<>>

GenLocalsIdle ==
    /\ pyembed_version = <<>>
    /\ pyembed_entry = <<>>
    /\ temp_exists = FALSE
    /\ cargo_toml_file = <<>>
    /\ manifest_data = <<>>
    /\ loaded = <<>>
    /\ packages = <<>>
    /\ g_result = GPending
    /\ trace = <<>>
    /\ cmdlog = <<>>

\* line 89: TempDir::new()?
GenTempDir ==
    /\ g_pc = "tempdir"
    /\ \E ok \in BOOLEAN :
          /\ trace' = Append(trace, Step("tempdir", ok))
          /\ IF ok
             THEN /\ temp_exists' = TRUE
                  /\ g_pc' = Then(g_pc)
                  /\ UNCHANGED <<g_result, cargo_toml_file>>
             ELSE GenReturn(GErr("io error"))
    /\ UNCHANGED <<caller, repo_root, pyembed_force_path, pyembed_version,
                   pyembed_entry, manifest_data, loaded, packages, cmdlog>>
    /\ UNCHANGED <<rc_vars, m_vars>>

\* lines 93-112: cargo_toml_package_version(..)?, then the dependency entry
GenVersion ==
    /\ g_pc = "version"
    /\ \/ /\ trace' = Append(trace, Step("version", FALSE))
          /\ GenReturn(GErr("version resolution"))
          /\ UNCHANGED <<pyembed_version, pyembed_entry>>
       \/ \E v \in Versions :
          /\ trace' = Append(trace, Step("version", TRUE))
          /\ pyembed_version' = v
          /\ pyembed_entry' = PyembedEntry(v, pyembed_force_path, repo_root)
          /\ g_pc' = Then(g_pc)
          /\ UNCHANGED <<g_result, temp_exists, cargo_toml_file>>
    /\ UNCHANGED <<caller, repo_root, pyembed_force_path, manifest_data,
                   loaded, packages, cmdlog>>
    /\ UNCHANGED <<rc_vars, m_vars>>

\* lines 114-123: cmd("cargo", ["init", "--bin", path]).stdout_to_stderr().run()?
GenCargoInit ==
    /\ g_pc = "cargo_init"
    /\ \/ \* the program could not be spawned
          /\ cmdlog' = Append(cmdlog, Invocation(<<"init", "--bin">>, NoExit, FALSE))
          /\ trace' = Append(trace, Step("cargo_init", FALSE))
          /\ GenReturn(GErr("io error"))
       \/ \E st \in ExitStatuses :
          /\ cmdlog' = Append(cmdlog, Invocation(<<"init", "--bin">>, st, TRUE))
          /\ trace' = Append(trace, Step("cargo_init", DuctRunOk(st)))
          /\ IF DuctRunOk(st)
             THEN /\ cargo_toml_file' = Skeleton
                  /\ g_pc' = Then(g_pc)
                  /\ UNCHANGED <<g_result, temp_exists>>
             ELSE GenReturn(GErr("command failed"))
    /\ UNCHANGED <<caller, repo_root, pyembed_force_path, pyembed_version,
                   pyembed_entry, manifest_data, loaded, packages>>
    /\ UNCHANGED <<rc_vars, m_vars>>

\* lines 131-132: read Cargo.toml, push the dependency entry
GenReadManifest ==
    /\ g_pc = "read_manifest"
    /\ \E ok \in BOOLEAN :
          IF ok
          THEN /\ manifest_data' = cargo_toml_file \o pyembed_entry
               /\ trace' = trace \o <<Step("read_manifest", TRUE),
                                      Step("append_entry", TRUE)>>
               /\ g_pc' = Then(g_pc)
               /\ UNCHANGED <<g_result, temp_exists, cargo_toml_file>>
          ELSE /\ trace' = Append(trace, Step("read_manifest", FALSE))
               /\ GenReturn(GErr("io error"))
               /\ UNCHANGED manifest_data
    /\ UNCHANGED <<caller, repo_root, pyembed_force_path, pyembed_version,
                   pyembed_entry, loaded, packages, cmdlog>>
    /\ UNCHANGED <<rc_vars, m_vars>>

\* lines 125-136: read the template, push it
GenReadExtra ==
    /\ g_pc = "read_extra"
    /\ \E ok \in BOOLEAN :
          IF ok
          THEN /\ manifest_data' = manifest_data \o ExtraToml
               /\ trace' = Append(trace, Step("append_extra", TRUE))
               /\ g_pc' = Then(g_pc)
               /\ UNCHANGED <<g_result, temp_exists, cargo_toml_file>>
          ELSE /\ trace' = Append(trace, Step("append_extra", FALSE))
               /\ GenReturn(GErr("io error"))
               /\ UNCHANGED manifest_data
    /\ UNCHANGED <<caller, repo_root, pyembed_force_path, pyembed_version,
                   pyembed_entry, loaded, packages, cmdlog>>
    /\ UNCHANGED <<rc_vars, m_vars>>

\* line 138: std::fs::write(&cargo_toml_path, manifest_data)?
GenWriteManifest ==
    /\ g_pc = "write_manifest"
    /\ \E ok \in BOOLEAN :
          /\ trace' = Append(trace, Step("write_manifest", ok))
          /\ IF ok
             THEN /\ cargo_toml_file' = manifest_data
                  /\ g_pc' = Then(g_pc)
                  /\ UNCHANGED <<g_result, temp_exists>>
             ELSE GenReturn(GErr("io error"))
    /\ UNCHANGED <<caller, repo_root, pyembed_force_path, pyembed_version,
                   pyembed_entry, manifest_data, loaded, packages, cmdlog>>
    /\ UNCHANGED <<rc_vars, m_vars>>

\* lines 140-143: cmd("cargo", ["generate-lockfile", "--offline"]).dir(..).run()?
GenLockfile ==
    /\ g_pc = "generate_lockfile"
    /\ \/ /\ cmdlog' = Append(cmdlog,
                 Invocation(<<"generate-lockfile", "--offline">>, NoExit, FALSE))
          /\ trace' = Append(trace, Step("generate_lockfile", FALSE))
          /\ GenReturn(GErr("io error"))
       \/ \E st \in ExitStatuses :
          /\ cmdlog' = Append(cmdlog,
                 Invocation(<<"generate-lockfile", "--offline">>, st, TRUE))
          /\ trace' = Append(trace, Step("generate_lockfile", DuctRunOk(st)))
          /\ IF DuctRunOk(st)
             THEN /\ g_pc' = Then(g_pc)
                  /\ UNCHANGED <<g_result, temp_exists, cargo_toml_file>>
             ELSE GenReturn(GErr("command failed"))
    /\ UNCHANGED <<caller, repo_root, pyembed_force_path, pyembed_version,
                   pyembed_entry, manifest_data, loaded, packages>>
    /\ UNCHANGED <<rc_vars, m_vars>>

\* lines 145-149: cargo_lock::Lockfile::load(cargo_lock_path)?
GenLoadLock ==
    /\ g_pc = "load_lock"
    /\ \/ /\ trace' = Append(trace, Step("load_lock", FALSE))
          /\ GenReturn(GErr("lock load"))
          /\ UNCHANGED <<loaded, packages>>
       \/ \E pkgs \in PkgLists :
          /\ trace' = Append(trace, Step("load_lock", TRUE))
          /\ loaded' = pkgs
          /\ packages' = pkgs
          /\ g_pc' = Then(g_pc)
          /\ UNCHANGED <<g_result, temp_exists, cargo_toml_file>>
    /\ UNCHANGED <<caller, repo_root, pyembed_force_path, pyembed_version,
                   pyembed_entry, manifest_data, cmdlog>>
    /\ UNCHANGED <<rc_vars, m_vars>>

\* lines 151-157: filter the packages, return the text
GenSanitize ==
    /\ g_pc = "sanitize"
    /\ packages' = Sanitize(packages)
    /\ trace' = Append(trace, Step("sanitize", TRUE))
    /\ GenReturn(GOk(LockText(packages')))
    /\ UNCHANGED <<caller, repo_root, pyembed_force_path, pyembed_version,
                   pyembed_entry, manifest_data, loaded, cmdlog>>
    /\ UNCHANGED <<rc_vars, m_vars>>

Generate ==
    \/ GenTempDir
    \/ GenVersion
    \/ GenCargoInit
    \/ GenReadManifest
    \/ GenReadExtra
    \/ GenWriteManifest
    \/ GenLockfile
    \/ GenLoadLock
    \/ GenSanitize

---------------------------------------------------------------------------
(* The sub-commands, main_impl and main, lines 160-236 *)

GitStates == {"workdir", "bare", "none"}
SlStates == {"root", "bad_status", "not_run", "not_utf8"}

Argvs == {"generate-new-project-cargo-lock", "synchronize-generated-files",
          "bogus", "", "--help"}

\* the exit code of a panicking Rust process (line 193, expect)
PanicExit == 101
\* the exit code of clap's Error::exit for a usage error (line 215, get_matches)
UsageExit == 2

MRunning == [kind |-> "running", msg |-> ""]
MOk == [kind |-> "ok", msg |-> ""]
MErr(msg) == [kind |-> "err", msg |-> msg]

NotExited == [exited |-> FALSE, code |-> 0]
ExitWith(c) == [exited |-> TRUE, code |-> c]

Out(what, text) == [what |-> what, text |-> text]

\* the error is printed but the process exits successfully
ExitCodeAlwaysZero(res) == 0

\* lines 227-233: the exit code main derives from main_impl's result
ExitCodeOf(res) == IF res.kind = "ok" THEN 0 ELSE 1

\* lines 229-230: what main writes to standard error
Diagnostic(res, err) ==
    IF res.kind = "ok" THEN err ELSE Append(err, "Error: " \o res.msg)

MainIdle ==
    /\ m_pc = "unused"
    /\ cwd_ok = TRUE
    /\ git = "workdir"
    /\ sl = "not_run"
    /\ probes = <<>>
    /\ argv = ""
    /\ subcommand = "unparsed"
    /\ stdout_buf = <<>>
    /\ stderr_buf = <<>>
    /\ lock_written = FALSE
    /\ m_result = MRunning
    /\ exit_code = NotExited

\* main_impl returns
MainReturn(res) ==
    /\ m_pc' = "main_impl_returned"
    /\ m_result' = res

\* `sl root` is also tried when the git repository has no work directory
RootOutcomeFallback(g, s) ==
    IF g = "workdir"
    THEN [kind |-> "root", val |-> "git_root", probes |-> <<"git">>]
    ELSE CASE s = "root" ->
                [kind |-> "root", val |-> "sl_root", probes |-> <<"git", "sl">>]
           [] s = "not_utf8" ->
                [kind |-> "panic", val |-> "sl root should print UTF-8",
                 probes |-> <<"git", "sl">>]
           [] OTHER ->
                [kind |-> "err", val |-> "could not find VCS root",
                 probes |-> <<"git", "sl">>]

\* lines 182-203: the repository root, from what git and sl find
RootOutcome(g, s) ==
    IF g # "none"
    THEN \* lines 182-185: Repository::discover succeeded
         IF g = "workdir"
         THEN [kind |-> "root", val |-> "git_root", probes |-> <<"git">>]
         ELSE [kind |-> "err", val |-> "unable to resolve working directory",
               probes |-> <<"git">>]
    ELSE \* lines 186-203: `sl root`
         CASE s = "root" ->
                [kind |-> "root", val |-> "sl_root", probes |-> <<"git", "sl">>]
           [] s = "not_utf8" ->
                \* line 193: expect panics
                [kind |-> "panic", val |-> "sl root should print UTF-8",
                 probes |-> <<"git", "sl">>]
           [] OTHER ->
                [kind |-> "err", val |-> "could not find VCS root",
                 probes |-> <<"git", "sl">>]

\* lines 180-203: the current directory, then the repository root
MainResolveRoot ==
    /\ m_pc = "start"
    /\ IF ~cwd_ok
       THEN \* line 180: current_dir()?
            /\ MainReturn(MErr("io error"))
            /\ UNCHANGED <<repo_root, probes, exit_code, stderr_buf>>
       ELSE LET r == RootOutcome(git, sl)
            IN  /\ probes' = r.probes
                /\ CASE r.kind = "root" ->
                          /\ repo_root' = r.val
                          /\ m_pc' = "parse_args"
                          /\ UNCHANGED <<m_result, exit_code, stderr_buf>>
                     [] r.kind = "panic" ->
                          /\ m_pc' = "exited"
                          /\ exit_code' = ExitWith(PanicExit)
                          /\ stderr_buf' = Append(stderr_buf, r.val)
                          /\ UNCHANGED <<repo_root, m_result>>
                     [] OTHER ->
                          /\ MainReturn(MErr(r.val))
                          /\ UNCHANGED <<repo_root, exit_code, stderr_buf>>
    /\ UNCHANGED <<cwd_ok, git, sl, argv, subcommand, stdout_buf, lock_written>>
    /\ UNCHANGED <<g_pc, caller, pyembed_force_path, pyembed_version,
                   pyembed_entry, temp_exists, cargo_toml_file, manifest_data,
                   loaded, packages, g_result, trace, cmdlog>>
    /\ UNCHANGED rc_vars

\* lines 205-215: clap's get_matches, which ends the process itself on a
\* usage error (code 2) and after printing help (code 0)
MainParseArgs ==
    /\ m_pc = "parse_args"
    /\ CASE argv \in {"generate-new-project-cargo-lock",
                      "synchronize-generated-files"} ->
              /\ subcommand' = argv
              /\ m_pc' = "dispatch"
              /\ UNCHANGED <<exit_code, stderr_buf, stdout_buf>>
         [] argv = "--help" ->
              /\ m_pc' = "exited"
              /\ exit_code' = ExitWith(0)
              /\ stdout_buf' = Append(stdout_buf, Out("help", <<>>))
              /\ UNCHANGED <<subcommand, stderr_buf>>
         [] OTHER ->
              \* an unrecognised sub-command, or no argument at all
              \* (arg_required_else_help)
              /\ m_pc' = "exited"
              /\ exit_code' = ExitWith(UsageExit)
              /\ stderr_buf' = Append(stderr_buf, "usage")
              /\ UNCHANGED <<subcommand, stdout_buf>>
    /\ UNCHANGED <<cwd_ok, git, sl, probes, argv, lock_written, m_result>>
    /\ UNCHANGED <<g_vars, rc_vars>>

\* lines 217-223: the match on the sub-command; lines 161 and 167: the call
MainDispatch ==
    /\ m_pc = "dispatch"
    /\ CASE subcommand = "generate-new-project-cargo-lock" ->
              /\ m_pc' = "command_generate_new_project_cargo_lock"
              /\ g_pc' = "tempdir"
              /\ caller' = subcommand
              /\ pyembed_force_path' = FALSE
              /\ UNCHANGED m_result
         [] subcommand = "synchronize-generated-files" ->
              /\ m_pc' = "command_synchronize_generated_files"
              /\ g_pc' = "tempdir"
              /\ caller' = subcommand
              /\ pyembed_force_path' = FALSE
              /\ UNCHANGED m_result
         [] OTHER ->
              \* line 222; get_matches has already ended the process when
              \* the command line names no known sub-command
              /\ MainReturn(MErr("invalid sub-command"))
              /\ UNCHANGED <<g_pc, caller, pyembed_force_path>>
    /\ UNCHANGED <<cwd_ok, git, sl, probes, argv, subcommand, stdout_buf, stderr_buf,
                   lock_written, exit_code>>
    /\ UNCHANGED <<repo_root, pyembed_version, pyembed_entry, temp_exists,
                   cargo_toml_file, manifest_data, loaded, packages, g_result, trace,
                   cmdlog>>
    /\ UNCHANGED rc_vars

\* lines 160-164: print!("{}", generate_new_project_cargo_lock(..)?)
CommandGenerate ==
    /\ m_pc = "command_generate_new_project_cargo_lock"
    /\ g_pc = "returned"
    /\ IF g_result.kind = "ok"
       THEN /\ stdout_buf' = Append(stdout_buf, Out("lock", g_result.text))
            /\ trace' = Append(trace, Step("print_lock", TRUE))
            /\ MainReturn(MOk)
       ELSE /\ MainReturn(MErr(g_result.kind))
            /\ UNCHANGED <<stdout_buf, trace>>
    /\ UNCHANGED <<cwd_ok, git, sl, probes, argv, subcommand, stderr_buf, lock_written,
                   exit_code>>
    /\ UNCHANGED <<g_pc, caller, repo_root, pyembed_force_path, pyembed_version,
                   pyembed_entry, temp_exists, cargo_toml_file, manifest_data,
                   loaded, packages, g_result, cmdlog>>
    /\ UNCHANGED rc_vars

\* the result of the generation is used without looking at its error
SyncGeneratedUnchecked ==
    /\ m_pc = "command_synchronize_generated_files"
    /\ g_pc = "returned"
    /\ m_pc' = "generate_sphinx_files"
    /\ UNCHANGED <<cwd_ok, git, sl, probes, argv, subcommand, stdout_buf,
                   stderr_buf, lock_written, exit_code, m_result>>
    /\ UNCHANGED <<g_vars, rc_vars>>

\* line 167: let cargo_lock = generate_new_project_cargo_lock(..)?
SyncGenerated ==
    /\ m_pc = "command_synchronize_generated_files"
    /\ g_pc = "returned"
    /\ IF g_result.kind = "ok"
       THEN m_pc' = "generate_sphinx_files" /\ UNCHANGED m_result
       ELSE MainReturn(MErr(g_result.kind))
    /\ UNCHANGED <<cwd_ok, git, sl, probes, argv, subcommand, stdout_buf, stderr_buf,
                   lock_written, exit_code>>
    /\ UNCHANGED <<g_vars, rc_vars>>

\* line 168: documentation::generate_sphinx_files(repo_root)?
SyncDocs ==
    /\ m_pc = "generate_sphinx_files"
    /\ \E ok \in BOOLEAN :
          /\ trace' = Append(trace, Step("generate_sphinx_files", ok))
          /\ IF ok
             THEN m_pc' = "write_lock" /\ UNCHANGED m_result
             ELSE MainReturn(MErr("documentation"))
    /\ UNCHANGED <<cwd_ok, git, sl, probes, argv, subcommand, stdout_buf, stderr_buf,
                   lock_written, exit_code>>
    /\ UNCHANGED <<g_pc, caller, repo_root, pyembed_force_path, pyembed_version,
                   pyembed_entry, temp_exists, cargo_toml_file, manifest_data,
                   loaded, packages, g_result, cmdlog>>
    /\ UNCHANGED rc_vars

\* lines 170-176: println!("writing ..."), std::fs::write(lock_path, ..)?
SyncWrite ==
    /\ m_pc = "write_lock"
    /\ stdout_buf' = Append(stdout_buf, Out("writing", <<>>))
    /\ \E ok \in BOOLEAN :
          /\ trace' = Append(trace, Step("write_lock", ok))
          /\ IF ok
             THEN lock_written' = TRUE /\ MainReturn(MOk)
             ELSE lock_written' = FALSE /\ MainReturn(MErr("io error"))
    /\ UNCHANGED <<cwd_ok, git, sl, probes, argv, subcommand, stderr_buf, exit_code>>
    /\ UNCHANGED <<g_pc, caller, repo_root, pyembed_force_path, pyembed_version,
                   pyembed_entry, temp_exists, cargo_toml_file, manifest_data,
                   loaded, packages, g_result, cmdlog>>
    /\ UNCHANGED rc_vars

\* lines 226-236: main
MainExit ==
    /\ m_pc = "main_impl_returned"
    /\ stderr_buf' = Diagnostic(m_result, stderr_buf)
    /\ exit_code' = ExitWith(ExitCodeOf(m_result))
    /\ m_pc' = "exited"
    /\ UNCHANGED <<cwd_ok, git, sl, probes, argv, subcommand, stdout_buf, lock_written,
                   m_result>>
    /\ UNCHANGED <<g_vars, rc_vars>>

---------------------------------------------------------------------------
(* Specifications *)

\* one run of the tool
Init ==
    /\ m_pc = "start"
    /\ cwd_ok \in BOOLEAN
    /\ git \in GitStates
    /\ sl \in SlStates
    /\ probes = <<>>
    /\ argv \in Argvs
    /\ subcommand = "unparsed"
    /\ stdout_buf = <<>>
    /\ stderr_buf = <<>>
    /\ lock_written = FALSE
    /\ m_result = MRunning
    /\ exit_code = NotExited
    /\ g_pc = "idle"
    /\ caller = "none"
    /\ repo_root = "unresolved"
    /\ pyembed_force_path = FALSE
    /\ GenLocalsIdle
    /\ RcIdle

Next ==
    \/ MainResolveRoot
    \/ MainParseArgs
    \/ MainDispatch
    \/ Generate
    \/ CommandGenerate
    \/ SyncGenerated
    \/ SyncDocs
    \/ SyncWrite
    \/ MainExit

Spec == Init /\ [][Next]_vars

\* one call of generate_new_project_cargo_lock
InitGen ==
    /\ g_pc = "tempdir"
    /\ caller = "direct"
    /\ repo_root \in Roots
    /\ pyembed_force_path \in BOOLEAN
    /\ GenLocalsIdle
    /\ RcIdle
    /\ MainIdle

NextGen == Generate

SpecGen == InitGen /\ [][NextGen]_vars

\* one call of run_cmd
InitRunCmd ==
    /\ RcInit
    /\ g_pc = "idle"
    /\ caller = "none"
    /\ repo_root = "unresolved"
    /\ pyembed_force_path = FALSE
    /\ GenLocalsIdle
    /\ MainIdle

SpecRunCmd == InitRunCmd /\ [][NextRunCmd]_vars

---------------------------------------------------------------------------
(* Claims about run_cmd, checked under SpecRunCmd *)

\* pat occurs in line: line = a \o pat \o b for some a and b
Occurs(pat, line) ==
    \E n \in 0..Len(line), m \in 0..Len(line) :
        /\ n + Len(pat) + m = Len(line)
        /\ \A k \in 1..Len(pat) : line[n + k] = pat[k]

\* some line the child produced contains a member of ignore_errors
SomeLineTolerated ==
    \E i \in 1..Len(produced), k \in 1..Len(ignore_errors) :
        ~produced[i].err /\ Occurs(ignore_errors[k], produced[i].text)

\* the child's stream was read to its end and its exit status was obtained
RunCmdJudged == rc_pc = "done" /\ status.state = "exited"

\* C1: once the child's whole output was read and its status obtained,
\* run_cmd returns Ok if and only if the exit code is 0 or some line, at any
\* position of the stream, contains a member of ignore_errors; when no line
\* matches and the exit code is not 0 it returns the "command exited" error
\* that carries the exit code, 1 standing for a code that cannot be obtained.
C1_ToleranceVerdict ==
    RunCmdJudged =>
        /\ (rc_result.kind = "ok") <=>
              ((status.has_code /\ status.code = 0) \/ SomeLineTolerated)
        /\ (~SomeLineTolerated /\ ~(status.has_code /\ status.code = 0)) =>
              /\ rc_result.kind = "command exited"
              /\ rc_result.code = (IF status.has_code THEN status.code ELSE 1)

\* a failing child whose first line, and not its last, is tolerated
C1_Witness ==
    /\ RunCmdJudged
    /\ status.has_code /\ status.code = 2
    /\ Len(produced) = 2
    /\ ignore_errors = << <<"a", "b">> >>
    /\ produced[1].text = <<"a", "b">>
    /\ produced[2].text = <<"b">>
    /\ rc_result.kind = "ok"

\* C2: at every point of a run_cmd call the sink holds exactly one entry per
\* line read so far, in the order the child produced them, each the label,
\* ": " and the line; a line that matches a tolerated substring is echoed
\* like any other. (A read error ends the call and is no line.)
C2_SinkMirrorsLines ==
    /\ Len(sink) = Cardinality({i \in 1..Len(produced) : ~produced[i].err})
    /\ \A i \in 1..Len(sink) :
          /\ ~produced[i].err
          /\ Len(sink[i]) = Len(package) + 2 + Len(produced[i].text)
          /\ \A k \in 1..Len(package) : sink[i][k] = package[k]
          /\ sink[i][Len(package) + 1] = ":"
          /\ sink[i][Len(package) + 2] = " "
          /\ \A k \in 1..Len(produced[i].text) :
                sink[i][Len(package) + 2 + k] = produced[i].text[k]
    /\ rc_pc = "wait" => Len(sink) = Len(produced)

\* two different lines were read, the first of them tolerated
C2_Witness ==
    /\ rc_pc = "wait"
    /\ Len(produced) = 2
    /\ ignore_errors = << <<"a">> >>
    /\ produced[1].text = <<"a", "b">>
    /\ produced[2].text = <<"b", "b">>
    /\ found_ignore_string
    /\ Len(sink) = 2

---------------------------------------------------------------------------
(* Claims about generate_new_project_cargo_lock, checked under SpecGen *)

\* the positions of the loaded records that are not the placeholder
Kept == {i \in 1..Len(loaded) : loaded[i].name # "placeholder_project"}

\* C3: the package list of a successful call is exactly the sub-sequence of
\* the loaded records whose name differs from placeholder_project: each such
\* record is kept once, in its relative order, every record with that exact
\* name is gone, and no record of the returned text has that name.
C3_SanitizeIsSubsequence ==
    g_result.kind = "ok" =>
        /\ Len(packages) = Cardinality(Kept)
        /\ \A i \in Kept :
              packages[Cardinality({j \in Kept : j <= i})] = loaded[i]
        /\ \A k \in 1..Len(packages) : packages[k].name # "placeholder_project"
        /\ \A k \in 1..Len(g_result.text) :
              g_result.text[k].name # "placeholder_project"
        /\ Len(g_result.text) = Len(packages) + 1

\* two placeholder records around a record with a longer name
C3_Witness ==
    /\ g_result.kind = "ok"
    /\ Len(loaded) = 3
    /\ loaded[1].name = "placeholder_project"
    /\ loaded[2].name = "placeholder_project2"
    /\ loaded[3].name = "placeholder_project"
    /\ Len(packages) = 1

HasLine(file, k, v) == \E i \in 1..Len(file) : file[i] = [key |-> k, val |-> v]
HasKey(file, k) == \E i \in 1..Len(file) : file[i].key = k

\* the last four characters of v are "-pre"
IsPreRelease(v) ==
    /\ Len(v) >= 4
    /\ v[Len(v) - 3] = "-"
    /\ v[Len(v) - 2] = "p"
    /\ v[Len(v) - 1] = "r"
    /\ v[Len(v)] = "e"

ManifestWritten == g_pc \in {"generate_lockfile", "load_lock", "sanitize"}

\* C4: the dependency entry in the written manifest pins the resolved version
\* with default features off, and has a path to <repo_root>/pyembed if and
\* only if the version ends with "-pre" or the force flag is set.
C4_PathOverride ==
    ManifestWritten =>
        /\ HasLine(cargo_toml_file, "[dependencies.pyembed]", <<>>)
        /\ HasLine(cargo_toml_file, "version", pyembed_version)
        /\ HasLine(cargo_toml_file, "default-features", <<"false">>)
        /\ HasKey(cargo_toml_file, "path") <=>
              (IsPreRelease(pyembed_version) \/ pyembed_force_path)
        /\ HasKey(cargo_toml_file, "path") =>
              HasLine(cargo_toml_file, "path", <<repo_root, "pyembed">>)

\* a pre-release version, not forced: the path is written
C4_Witness ==
    /\ ManifestWritten
    /\ ~pyembed_force_path
    /\ pyembed_version = <<"1", "-", "p", "r", "e">>
    /\ HasKey(cargo_toml_file, "path")

TempAllocated == \E i \in 1..Len(trace) : trace[i] = [step |-> "tempdir", ok |-> TRUE]

StepOf(inv) == IF inv.args[1] = "init" THEN "cargo_init" ELSE "generate_lockfile"

\* C6 as stated: every toolchain invocation of the generation goes through
\* run_cmd.
C6_Original ==
    \A i \in 1..Len(cmdlog) : cmdlog[i].via = "run_cmd"

\* C6 amended: every toolchain invocation of the generation is made directly
\* with duct's cmd(..).run(), with standard output sent to standard error;
\* run_cmd is not entered and echoes nothing; the invocation succeeds exactly
\* when the child was spawned and exited with code 0.
C6_DirectInvocation ==
    /\ \A i \in 1..Len(cmdlog) :
          /\ cmdlog[i].via = "duct::cmd.run"
          /\ cmdlog[i].stdout_to = "stderr"
          /\ \E j \in 1..Len(trace) :
                /\ trace[j].step = StepOf(cmdlog[i])
                /\ trace[j].ok <=> (/\ cmdlog[i].spawned
                                    /\ cmdlog[i].has_code
                                    /\ cmdlog[i].code = 0)
    /\ rc_pc = "unused"
    /\ sink = <<>>

\* both commands were invoked, the second exited with code 1
C6_Witness ==
    /\ Len(cmdlog) = 2
    /\ cmdlog[1].args = <<"init", "--bin">>
    /\ cmdlog[2].args = <<"generate-lockfile", "--offline">>
    /\ cmdlog[2].has_code /\ cmdlog[2].code = 1
    /\ g_result.kind = "command failed"

\* every occurrence of step b in the trace follows a successful step a
Requires(a, b) ==
    \A j \in 1..Len(trace) :
        trace[j].step = b =>
            \E i \in 1..(j - 1) : trace[i].step = a /\ trace[i].ok

\* the order of the steps that C10 and its amendment share
CommonOrder ==
    /\ trace # <<>> => trace[1].step = "tempdir"
    /\ Requires("cargo_init", "read_manifest")
    /\ Requires("read_manifest", "append_entry")
    /\ Requires("append_entry", "append_extra")
    /\ Requires("append_extra", "write_manifest")
    /\ Requires("write_manifest", "generate_lockfile")
    /\ Requires("generate_lockfile", "load_lock")
    /\ Requires("load_lock", "sanitize")

\* C10 as stated: the skeleton is generated before the version is resolved.
C10_Original ==
    /\ CommonOrder
    /\ Requires("tempdir", "cargo_init")
    /\ Requires("cargo_init", "version")

\* C10 amended: the temporary directory is allocated first, the version is
\* resolved before the skeleton is generated, the dependency fragment and
\* then the template fragment are appended before the lock generation is
\* invoked, and the lock is loaded and sanitized only after it succeeded.
C10_StepOrder ==
    /\ CommonOrder
    /\ Requires("tempdir", "version")
    /\ Requires("version", "cargo_init")

\* a complete successful call
C10_Witness ==
    /\ g_result.kind = "ok"
    /\ Len(trace) = 10
    /\ trace[2].step = "version"
    /\ trace[3].step = "cargo_init"

---------------------------------------------------------------------------
(* Claims about the sub-commands and main, checked under Spec *)

Did(name) == \E i \in 1..Len(trace) : trace[i].step = name
Failed(name) == \E i \in 1..Len(trace) : trace[i] = [step |-> name, ok |-> FALSE]
Printed(what) == \E i \in 1..Len(stdout_buf) : stdout_buf[i].what = what

GenFailed == g_result.kind \notin {"pending", "ok"}

\* C7: in both sub-commands a failed step is the last step executed and no
\* toolchain command is invoked twice; after a failed lock generation the
\* lock text is not printed, the documentation generator is not run and the
\* lock path is not written; after a failed documentation generation the
\* lock path is not written; main_impl returns the error.
C7_FailureStops ==
    /\ \A i \in 1..Len(trace) : ~trace[i].ok => i = Len(trace)
    /\ \A i \in 1..Len(cmdlog) : \A j \in 1..Len(cmdlog) :
          cmdlog[i].args = cmdlog[j].args => i = j
    /\ GenFailed =>
          /\ ~Printed("lock")
          /\ ~Did("generate_sphinx_files")
          /\ ~Did("write_lock")
          /\ ~Printed("writing")
          /\ ~lock_written
    /\ Failed("generate_sphinx_files") =>
          /\ ~Did("write_lock")
          /\ ~Printed("writing")
          /\ ~lock_written
    /\ ((\E i \in 1..Len(trace) : ~trace[i].ok)
            /\ m_pc \in {"main_impl_returned", "exited"}) =>
          m_result.kind = "err"

\* synchronize-generated-files ended after the documentation generator failed
C7_Witness ==
    /\ m_pc = "exited"
    /\ caller = "synchronize-generated-files"
    /\ g_result.kind = "ok"
    /\ Failed("generate_sphinx_files")
    /\ Len(cmdlog) = 2
    /\ ~lock_written

\* C8 as stated: every run ends with exit code 0 after a successful
\* sub-command and with exit code 1, the error written to standard error,
\* after any error; no other exit code is produced.
C8_Original ==
    m_pc = "exited" =>
        \/ /\ exit_code.code = 0
           /\ m_result.kind = "ok"
        \/ /\ exit_code.code = 1
           /\ m_result.kind = "err"
           /\ stderr_buf # <<>>

\* C8 amended: a run in which main_impl returns ends with exit code 0 when
\* it returned Ok and with exit code 1, the error having been written to
\* standard error, when it returned an error. A run may also end without
\* main_impl returning: the argument parser ends it with code 2 on an
\* unrecognised sub-command or an empty command line and with code 0 after
\* printing help, and output of `sl root` that is not UTF-8 panics (code 101).
C8_ExitCodes ==
    m_pc = "exited" =>
        /\ exit_code.exited
        /\ \/ /\ m_result.kind = "ok"
              /\ exit_code.code = 0
              /\ stderr_buf = <<>>
           \/ /\ m_result.kind = "err"
              /\ exit_code.code = 1
              /\ stderr_buf = <<"Error: " \o m_result.msg>>
           \/ /\ m_result.kind = "running"
              /\ exit_code.code = 2
              /\ argv \in {"bogus", ""}
              /\ repo_root \in {"git_root", "sl_root"}
              /\ stderr_buf # <<>>
           \/ /\ m_result.kind = "running"
              /\ exit_code.code = 0
              /\ argv = "--help"
           \/ /\ m_result.kind = "running"
              /\ exit_code.code = 101
              /\ cwd_ok /\ git = "none" /\ sl = "not_utf8"

\* the lock generation command failed inside a sub-command: exit code 1
C8_Witness ==
    /\ m_pc = "exited"
    /\ g_result.kind = "command failed"
    /\ m_result.kind = "err"
    /\ exit_code.code = 1
    /\ Len(stderr_buf) = 1

RootResolved == repo_root \in {"git_root", "sl_root"}
NoVcsRoot == m_result = [kind |-> "err", msg |-> "could not find VCS root"]
Tried(strategy) == \E i \in 1..Len(probes) : probes[i] = strategy

\* root resolution has run (the current directory was obtained)
RootDecided == m_pc # "start" /\ cwd_ok

\* C9 as stated: the primary strategy is tried first, the secondary only
\* after the primary yielded no root; a root is returned whenever one of
\* them can yield one, and the no-VCS-root error is returned exactly when
\* both fail.
C9_Original ==
    RootDecided =>
        /\ probes[1] = "git"
        /\ Tried("sl") => (probes = <<"git", "sl">> /\ git # "workdir")
        /\ RootResolved <=> (git = "workdir" \/ sl = "root")
        /\ NoVcsRoot <=> (git # "workdir" /\ sl # "root")

\* C9 amended: git discovery is tried first and `sl root` exactly when git
\* discovery finds no repository. The root is the git work directory when a
\* repository with one is found, and the output of `sl root` when no git
\* repository is found and `sl root` succeeds. The no-VCS-root error is
\* returned exactly when no git repository is found and `sl root` cannot be
\* run or exits unsuccessfully. A git repository without work directory
\* fails with "unable to resolve working directory" and `sl` is not tried;
\* output of a successful `sl root` that is not UTF-8 panics.
C9_RootResolution ==
    RootDecided =>
        /\ probes[1] = "git"
        /\ Tried("sl") <=> git = "none"
        /\ Tried("sl") => probes = <<"git", "sl">>
        /\ repo_root = "git_root" <=> git = "workdir"
        /\ repo_root = "sl_root" <=> (git = "none" /\ sl = "root")
        /\ NoVcsRoot <=> (git = "none" /\ sl \in {"bad_status", "not_run"})
        /\ git = "bare" =>
              m_result = [kind |-> "err",
                          msg |-> "unable to resolve working directory"]
        /\ (git = "none" /\ sl = "not_utf8") =>
              (m_pc = "exited" /\ exit_code.code = 101)

\* git found nothing and `sl root` gave the root
C9_Witness ==
    /\ RootDecided
    /\ git = "none"
    /\ sl = "root"
    /\ probes = <<"git", "sl">>
    /\ repo_root = "sl_root"

===========================================================================
